---- MODULE Spec2Model ----
(***************************************************************************)
(* Model of CapacitiveTouchExample/captouch.c: one capacitive touch button *)
(* on an MSP430G2553, pin-oscillator method.  Timer_A counts the pin       *)
(* oscillator while the watchdog timer (WDT+), used as an interval timer,  *)
(* gates the measurement; the same WDT, clocked from ACLK, times the delay *)
(* between measurement cycles.  The CPU sleeps in both waits and is woken  *)
(* by the WDT interrupt.                                                   *)
(*                                                                         *)
(* int and unsigned int are 16 bits wide on this target.                   *)
(***************************************************************************)
EXTENDS Integers, Sequences, FiniteSets, TLC

(***************************************************************************)
(* Program constants.                                                      *)
(***************************************************************************)
KEY_LVL == 220

\* Number of measurements averaged by get_base_count (for (i = 16; ...)).
BASE_SAMPLES == 16

\* Value loaded into cycles after a key press.
GRACE == 20

\* SMCLK/512 (measurement gate) and ACLK/512 (delay): WDT source clock
\* periods per interval.  ACLK (VLO, 12 kHz) is slower than MCLK = SMCLK
\* (1 MHz), so either interval lasts at least 512 CPU clock cycles.
GateCycles == 512

\* unsigned int / int / TAR width
Word == 65536

(***************************************************************************)
(* Bounds of the model.                                                    *)
(***************************************************************************)
\* Upper bound on the CPU clock cycles one modelled step takes while the WDT
\* counts (the longest, m_133, is three read-modify-write statements; the
\* UART output runs with the WDT stopped).
StmtCycles == 64

\* Cap of the history counter "since" (not-touched cycles since a touch).
MaxSince == 22

\* Oscillator counts the environment produces during one gate of the main
\* loop: no oscillation, a touch (more than KEY_LVL below 1000), the largest
\* drop that is no touch, the idle level, a count in the upper half of the
\* counter range, and the saturated counter.
RawCounts == {0, 779, 780, 1000, 33768, 65535}

\* Oscillator counts the environment produces while the baseline is taken
\* (no touch is present then).
BaseCounts == {1000, 33768}

(***************************************************************************)
(* Status register bits and peripheral settings.                           *)
(***************************************************************************)
LPM0_bits == {"CPUOFF"}
LPM3_bits == {"CPUOFF", "SCG0", "SCG1"}

\* WDTCTL values written by the program (plus the reset value: watchdog mode)
WDT_HOLD == "hold"
WDT_meas_setting == "smclk512"
WDT_delay_setting == "aclk512"
WDT_RESET == "watchdog"

\* BCSCTL1 DIVAx field
DIVA_0 == 0
DIVA_3 == 3

VARIABLES
    pc,          \* next statement of the main program
    ret,         \* return address of measure_count
    base_cnt, meas_cnt, delta_cnt, key_pressed, cycles,   \* globals
    i,           \* loop counter of get_base_count
    SR,          \* status register bits that are set
    WDTCTL,      \* watchdog timer setting
    wdtcnt,      \* CPU statements executed since the WDT counter was cleared
    WDTIE, WDTIFG,
    DIVA,        \* BCSCTL1 ACLK divider field
    TA0CTL,      \* Timer_A mode: "stop" or "cont" (INCLK, continuous)
    CCIS,        \* capture input of TA0CCTL1: "none", "GND" or "VCC"
    TAR, TACCR1,
    P2SEL2,      \* pin oscillator routing of TOUCHPIN
    uart,        \* what the current main-loop cycle has printed
    base_old,    \* history: baseline the current delta was computed from
    since,       \* history: not-touched cycles since the last touched one
    susp,        \* history: halts and wakes of the current loop iteration
    nmeas,       \* history: captures taken in the current loop iteration
    gsum,        \* history: exact sum of the counts get_base_count has read
    gcount,      \* history: measurements get_base_count has made
    nexp,        \* history: WDT intervals elapsed since WDTCTL was last written
    mtrace       \* history: what the current measure_count call has done

prog == <<pc, ret, base_cnt, meas_cnt, delta_cnt, key_pressed, cycles, i>>
hw   == <<SR, WDTCTL, wdtcnt, WDTIE, WDTIFG, DIVA, TA0CTL, CCIS, TAR, TACCR1, P2SEL2>>
hist == <<uart, base_old, since, susp, nmeas, gsum, gcount, nexp, mtrace>>
vars == <<prog, hw, hist>>

(***************************************************************************)
(* 16-bit arithmetic.                                                      *)
(***************************************************************************)
\* unsigned int -> int conversion (two's complement, as GCC defines it)
ToInt16(x) == IF x >= Word \div 2 THEN x - Word ELSE x

\* delta_cnt = base_cnt - meas_cnt: unsigned subtraction, stored in an int
Delta(b, m) == ToInt16((b - m) % Word)

\* (base_cnt + meas_cnt) >> 1 in unsigned int
Average(b, m) == ((b + m) % Word) \div 2

\* meas_cnt + base_cnt in unsigned int
AddU16(a, b) == (a + b) % Word

\* base_cnt >> 4
Shr4(x) == x \div 16

\* Variant: the sign test reversed.
DriftCond_reversed(d) == d > 0

\* if (delta_cnt < 0)
DriftCond(d) == d < 0

\* Variant: the magnitude of the change is compared.
TouchCond_magnitude(d) == d > KEY_LVL \/ d < -KEY_LVL

\* Variant: the threshold comparison reversed.
TouchCond_reversed(d) == d < KEY_LVL

\* if (delta_cnt > KEY_LVL)
TouchCond(d) == d > KEY_LVL

\* Variant: pre-decrement, if (--cycles == 0)
GraceExpired_predecrement(c) == c - 1 = 0

\* if (cycles-- == 0)
GraceExpired(c) == c = 0

(***************************************************************************)
(* Hardware: CPU, WDT+ in interval mode, interrupt.                        *)
(***************************************************************************)
Running == "CPUOFF" \notin SR

WdtInterval == WDTCTL \in {WDT_meas_setting, WDT_delay_setting}

\* One more CPU statement executed while the WDT counts.
Tick == IF WdtInterval /\ wdtcnt * StmtCycles < GateCycles THEN wdtcnt + 1 ELSE wdtcnt

\* Timer_A counts oscillator edges
Counting == TA0CTL = "cont" /\ P2SEL2

Init ==
    /\ pc = "main_71" /\ ret = "none"
    /\ base_cnt = 0 /\ meas_cnt = 0 /\ delta_cnt = 0 /\ key_pressed = 0
    /\ cycles = 0 /\ i = 0
    /\ SR = {} /\ WDTCTL = WDT_RESET /\ wdtcnt = 0
    /\ WDTIE = FALSE /\ WDTIFG = FALSE
    /\ DIVA = DIVA_0
    /\ TA0CTL = "stop" /\ CCIS = "none" /\ TAR = 0 /\ TACCR1 = 0
    /\ P2SEL2 = FALSE
    /\ uart = <<>> /\ base_old = 0 /\ since = -1 /\ susp = <<>> /\ nmeas = 0
    /\ gsum = 0 /\ gcount = 0
    /\ nexp = 0 /\ mtrace = <<>>

(***************************************************************************)
(* main: start-up.                                                         *)
(***************************************************************************)
\* WDTCTL = WDTPW + WDTHOLD; DCO and VLO set-up (BCSCTL1 = CALBC1_1MHZ)
main_71 ==
    /\ Running /\ pc = "main_71"
    /\ WDTCTL' = WDT_HOLD /\ wdtcnt' = 0
    /\ DIVA' = DIVA_0
    /\ pc' = "main_77"
    /\ UNCHANGED <<ret, base_cnt, meas_cnt, delta_cnt, key_pressed, cycles, i>>
    /\ UNCHANGED <<SR, WDTIE, WDTIFG, TA0CTL, CCIS, TAR, TACCR1, P2SEL2>>
    /\ nexp' = 0
    /\ UNCHANGED <<uart, base_old, since, susp, nmeas, gsum, gcount, mtrace>>

\* Variant: the WDT interrupt is not enabled.
main_77_no_WDTIE ==
    /\ Running /\ pc = "main_77"
    /\ wdtcnt' = Tick
    /\ pc' = "main_80"
    /\ UNCHANGED <<ret, base_cnt, meas_cnt, delta_cnt, key_pressed, cycles, i>>
    /\ UNCHANGED <<SR, WDTCTL, WDTIE, WDTIFG, DIVA, TA0CTL, CCIS, TAR, TACCR1, P2SEL2>>
    /\ UNCHANGED hist

\* IE1 |= WDTIE; UARTConfigure();
main_77 ==
    /\ Running /\ pc = "main_77"
    /\ WDTIE' = TRUE
    /\ wdtcnt' = Tick
    /\ pc' = "main_80"
    /\ UNCHANGED <<ret, base_cnt, meas_cnt, delta_cnt, key_pressed, cycles, i>>
    /\ UNCHANGED <<SR, WDTCTL, WDTIFG, DIVA, TA0CTL, CCIS, TAR, TACCR1, P2SEL2>>
    /\ UNCHANGED hist

\* __bis_SR_register(GIE); get_base_count(TOUCHPIN);
main_80 ==
    /\ Running /\ pc = "main_80"
    /\ SR' = SR \cup {"GIE"}
    /\ wdtcnt' = Tick
    /\ pc' = "gb_117"
    /\ UNCHANGED <<ret, base_cnt, meas_cnt, delta_cnt, key_pressed, cycles, i>>
    /\ UNCHANGED <<WDTCTL, WDTIE, WDTIFG, DIVA, TA0CTL, CCIS, TAR, TACCR1, P2SEL2>>
    /\ UNCHANGED hist

(***************************************************************************)
(* get_base_count                                                          *)
(***************************************************************************)
\* base_cnt = 0; i = 16;
gb_117 ==
    /\ Running /\ pc = "gb_117"
    /\ base_cnt' = 0 /\ i' = BASE_SAMPLES
    /\ wdtcnt' = Tick
    /\ pc' = "gb_118"
    /\ gsum' = 0 /\ gcount' = 0
    /\ UNCHANGED <<ret, meas_cnt, delta_cnt, key_pressed, cycles>>
    /\ UNCHANGED <<SR, WDTCTL, WDTIE, WDTIFG, DIVA, TA0CTL, CCIS, TAR, TACCR1, P2SEL2>>
    /\ UNCHANGED <<uart, base_old, since, susp, nmeas, nexp, mtrace>>

\* for (...; i > 0; ...) measure_count(pin);     after the loop: base_cnt >> 4
gb_118 ==
    /\ Running /\ pc = "gb_118"
    /\ wdtcnt' = Tick
    /\ IF i > 0
         THEN /\ pc' = "m_127" /\ ret' = "gb_120"
              /\ UNCHANGED base_cnt
         ELSE /\ base_cnt' = Shr4(base_cnt)
              /\ pc' = "L85" /\ UNCHANGED ret
    /\ UNCHANGED <<meas_cnt, delta_cnt, key_pressed, cycles, i>>
    /\ UNCHANGED <<SR, WDTCTL, WDTIE, WDTIFG, DIVA, TA0CTL, CCIS, TAR, TACCR1, P2SEL2>>
    /\ UNCHANGED hist

\* base_cnt = meas_cnt + base_cnt; i--
gb_120 ==
    /\ Running /\ pc = "gb_120"
    /\ base_cnt' = AddU16(meas_cnt, base_cnt)
    /\ i' = i - 1
    /\ wdtcnt' = Tick
    /\ pc' = "gb_118"
    /\ gsum' = gsum + meas_cnt /\ gcount' = gcount + 1
    /\ UNCHANGED <<ret, meas_cnt, delta_cnt, key_pressed, cycles>>
    /\ UNCHANGED <<SR, WDTCTL, WDTIE, WDTIFG, DIVA, TA0CTL, CCIS, TAR, TACCR1, P2SEL2>>
    /\ UNCHANGED <<uart, base_old, since, susp, nmeas, nexp, mtrace>>

(***************************************************************************)
(* measure_count                                                           *)
(***************************************************************************)
\* Writing TA0CCTL1 / toggling CCIS0 with CM_3 + CAP: an edge on the selected
\* capture input latches TAR into TACCR1.
Capture(old, new) == IF old \in {"GND", "VCC"} /\ new # old THEN TAR ELSE TACCR1

\* TA0CTL = TASSEL_3 + MC_2; TA0CCTL1 = CM_3 + CCIS_2 + CAP;
m_127 ==
    /\ Running /\ pc = "m_127"
    /\ TA0CTL' = "cont"
    /\ CCIS' = "GND"
    /\ TACCR1' = Capture(CCIS, "GND")
    /\ wdtcnt' = Tick
    /\ pc' = "m_133"
    /\ UNCHANGED <<ret, base_cnt, meas_cnt, delta_cnt, key_pressed, cycles, i>>
    /\ UNCHANGED <<SR, WDTCTL, WDTIE, WDTIFG, DIVA, TAR, P2SEL2>>
    /\ mtrace' = <<>>
    /\ UNCHANGED <<uart, base_old, since, susp, nmeas, gsum, gcount, nexp>>

\* P2DIR &= ~pin; P2SEL &= ~pin; P2SEL2 |= pin;
m_133 ==
    /\ Running /\ pc = "m_133"
    /\ P2SEL2' = TRUE
    /\ wdtcnt' = Tick
    /\ pc' = "m_138"
    /\ UNCHANGED <<ret, base_cnt, meas_cnt, delta_cnt, key_pressed, cycles, i>>
    /\ UNCHANGED <<SR, WDTCTL, WDTIE, WDTIFG, DIVA, TA0CTL, CCIS, TAR, TACCR1>>
    /\ mtrace' = Append(mtrace, "route")
    /\ UNCHANGED <<uart, base_old, since, susp, nmeas, gsum, gcount, nexp>>

\* WDTCTL = WDT_meas_setting;   (WDTCNTCL clears the WDT counter)
m_138 ==
    /\ Running /\ pc = "m_138"
    /\ WDTCTL' = WDT_meas_setting /\ wdtcnt' = 0
    /\ pc' = "m_139"
    /\ UNCHANGED <<ret, base_cnt, meas_cnt, delta_cnt, key_pressed, cycles, i>>
    /\ UNCHANGED <<SR, WDTIE, WDTIFG, DIVA, TA0CTL, CCIS, TAR, TACCR1, P2SEL2>>
    /\ nexp' = 0 /\ mtrace' = Append(mtrace, "gate")
    /\ UNCHANGED <<uart, base_old, since, susp, nmeas, gsum, gcount>>

\* Variant: Timer_A is not cleared.
m_139_no_clear ==
    /\ Running /\ pc = "m_139"
    /\ wdtcnt' = Tick
    /\ pc' = "m_140"
    /\ UNCHANGED <<ret, base_cnt, meas_cnt, delta_cnt, key_pressed, cycles, i>>
    /\ UNCHANGED <<SR, WDTCTL, WDTIE, WDTIFG, DIVA, TA0CTL, CCIS, TAR, TACCR1, P2SEL2>>
    /\ UNCHANGED hist

\* TA0CTL |= TACLR;
m_139 ==
    /\ Running /\ pc = "m_139"
    /\ TAR' = 0
    /\ wdtcnt' = Tick
    /\ pc' = "m_140"
    /\ UNCHANGED <<ret, base_cnt, meas_cnt, delta_cnt, key_pressed, cycles, i>>
    /\ UNCHANGED <<SR, WDTCTL, WDTIE, WDTIFG, DIVA, TA0CTL, CCIS, TACCR1, P2SEL2>>
    /\ mtrace' = Append(mtrace, "clear")
    /\ UNCHANGED <<uart, base_old, since, susp, nmeas, gsum, gcount, nexp>>

\* __bis_SR_register(LPM0_bits + GIE);
m_140 ==
    /\ Running /\ pc = "m_140"
    /\ SR' = SR \cup LPM0_bits \cup {"GIE"}
    /\ wdtcnt' = Tick
    /\ susp' = IF ret = "L87" THEN Append(susp, "LPM0") ELSE susp
    /\ pc' = "m_141"
    /\ UNCHANGED <<ret, base_cnt, meas_cnt, delta_cnt, key_pressed, cycles, i>>
    /\ UNCHANGED <<WDTCTL, WDTIE, WDTIFG, DIVA, TA0CTL, CCIS, TAR, TACCR1, P2SEL2>>
    /\ mtrace' = Append(mtrace, "halt")
    /\ UNCHANGED <<uart, base_old, since, nmeas, gsum, gcount, nexp>>

\* TA0CCTL1 ^= CCIS0;
m_141 ==
    /\ Running /\ pc = "m_141"
    /\ CCIS' = (IF CCIS = "GND" THEN "VCC" ELSE "GND")
    /\ TACCR1' = Capture(CCIS, CCIS')
    /\ nmeas' = IF ret = "L87" THEN nmeas + 1 ELSE nmeas
    /\ wdtcnt' = Tick
    /\ pc' = "m_142"
    /\ UNCHANGED <<ret, base_cnt, meas_cnt, delta_cnt, key_pressed, cycles, i>>
    /\ UNCHANGED <<SR, WDTCTL, WDTIE, WDTIFG, DIVA, TA0CTL, TAR, P2SEL2>>
    /\ mtrace' = Append(mtrace, "capture")
    /\ UNCHANGED <<uart, base_old, since, susp, gsum, gcount, nexp>>

\* meas_cnt = TACCR1;
m_142 ==
    /\ Running /\ pc = "m_142"
    /\ meas_cnt' = TACCR1
    /\ wdtcnt' = Tick
    /\ pc' = "m_143"
    /\ UNCHANGED <<ret, base_cnt, delta_cnt, key_pressed, cycles, i>>
    /\ UNCHANGED <<SR, WDTCTL, WDTIE, WDTIFG, DIVA, TA0CTL, CCIS, TAR, TACCR1, P2SEL2>>
    /\ mtrace' = Append(mtrace, "save")
    /\ UNCHANGED <<uart, base_old, since, susp, nmeas, gsum, gcount, nexp>>

\* Variant: the WDT is left running after the measurement.
m_143_no_hold ==
    /\ Running /\ pc = "m_143"
    /\ wdtcnt' = Tick
    /\ pc' = "m_144"
    /\ mtrace' = Append(mtrace, "stop")
    /\ UNCHANGED <<ret, base_cnt, meas_cnt, delta_cnt, key_pressed, cycles, i>>
    /\ UNCHANGED <<SR, WDTCTL, WDTIE, WDTIFG, DIVA, TA0CTL, CCIS, TAR, TACCR1, P2SEL2>>
    /\ UNCHANGED <<uart, base_old, since, susp, nmeas, gsum, gcount, nexp>>

\* WDTCTL = WDTPW + WDTHOLD;
m_143 ==
    /\ Running /\ pc = "m_143"
    /\ WDTCTL' = WDT_HOLD /\ wdtcnt' = 0
    /\ pc' = "m_144"
    /\ UNCHANGED <<ret, base_cnt, meas_cnt, delta_cnt, key_pressed, cycles, i>>
    /\ UNCHANGED <<SR, WDTIE, WDTIFG, DIVA, TA0CTL, CCIS, TAR, TACCR1, P2SEL2>>
    /\ nexp' = 0 /\ mtrace' = Append(mtrace, "stop")
    /\ UNCHANGED <<uart, base_old, since, susp, nmeas, gsum, gcount>>

\* Variant: the pin oscillator function is left selected.
m_144_keep_routing ==
    /\ Running /\ pc = "m_144"
    /\ wdtcnt' = Tick
    /\ pc' = ret
    /\ mtrace' = Append(mtrace, "unroute")
    /\ UNCHANGED <<ret, base_cnt, meas_cnt, delta_cnt, key_pressed, cycles, i>>
    /\ UNCHANGED <<SR, WDTCTL, WDTIE, WDTIFG, DIVA, TA0CTL, CCIS, TAR, TACCR1, P2SEL2>>
    /\ UNCHANGED <<uart, base_old, since, susp, nmeas, gsum, gcount, nexp>>

\* P2SEL2 &= ~pin; return
m_144 ==
    /\ Running /\ pc = "m_144"
    /\ P2SEL2' = FALSE
    /\ wdtcnt' = Tick
    /\ pc' = ret
    /\ UNCHANGED <<ret, base_cnt, meas_cnt, delta_cnt, key_pressed, cycles, i>>
    /\ UNCHANGED <<SR, WDTCTL, WDTIE, WDTIFG, DIVA, TA0CTL, CCIS, TAR, TACCR1>>
    /\ mtrace' = Append(mtrace, "unroute")
    /\ UNCHANGED <<uart, base_old, since, susp, nmeas, gsum, gcount, nexp>>

(***************************************************************************)
(* main: the measurement cycle, while (1) { ... }                          *)
(***************************************************************************)
\* print.h / UART.h: each call sends one line; printformat's line reports
\* the three values it is given.
printformat(b, m, d) == [kind |-> "report", base |-> b, raw |-> m, diff |-> d]

UARTPrintln(str) == [kind |-> str]

\* key_pressed = 0; measure_count(TOUCHPIN);
L85 ==
    /\ Running /\ pc = "L85"
    /\ key_pressed' = 0
    /\ pc' = "m_127" /\ ret' = "L87"
    /\ wdtcnt' = Tick
    /\ uart' = <<>> /\ susp' = <<>> /\ nmeas' = 0
    /\ gsum' = 0 /\ gcount' = 0
    /\ UNCHANGED <<base_cnt, meas_cnt, delta_cnt, cycles, i>>
    /\ UNCHANGED <<SR, WDTCTL, WDTIE, WDTIFG, DIVA, TA0CTL, CCIS, TAR, TACCR1, P2SEL2>>
    /\ UNCHANGED <<base_old, since, nexp, mtrace>>

\* delta_cnt = base_cnt - meas_cnt; printformat("Baseline: ...", ...);
L87 ==
    /\ Running /\ pc = "L87"
    /\ delta_cnt' = Delta(base_cnt, meas_cnt)
    /\ uart' = Append(uart, printformat(base_cnt, meas_cnt, delta_cnt'))
    /\ base_old' = base_cnt
    /\ wdtcnt' = Tick
    /\ pc' = "L91"
    /\ UNCHANGED <<ret, base_cnt, meas_cnt, key_pressed, cycles, i>>
    /\ UNCHANGED <<SR, WDTCTL, WDTIE, WDTIFG, DIVA, TA0CTL, CCIS, TAR, TACCR1, P2SEL2>>
    /\ UNCHANGED <<since, susp, nmeas, gsum, gcount, nexp, mtrace>>

\* if (delta_cnt < 0) base_cnt = (base_cnt + meas_cnt) >> 1;
L91 ==
    /\ Running /\ pc = "L91"
    /\ base_cnt' = IF DriftCond(delta_cnt) THEN Average(base_cnt, meas_cnt) ELSE base_cnt
    /\ wdtcnt' = Tick
    /\ pc' = "L94"
    /\ UNCHANGED <<ret, meas_cnt, delta_cnt, key_pressed, cycles, i>>
    /\ UNCHANGED <<SR, WDTCTL, WDTIE, WDTIFG, DIVA, TA0CTL, CCIS, TAR, TACCR1, P2SEL2>>
    /\ UNCHANGED hist

\* Variant: the notification is printed whatever the decision is.
L94_always_prints ==
    /\ Running /\ pc = "L94"
    /\ key_pressed' = IF TouchCond(delta_cnt) THEN 1 ELSE 0
    /\ uart' = Append(uart, UARTPrintln("Presense detected"))
    /\ wdtcnt' = Tick
    /\ pc' = "L100"
    /\ UNCHANGED <<ret, base_cnt, meas_cnt, delta_cnt, cycles, i>>
    /\ UNCHANGED <<SR, WDTCTL, WDTIE, WDTIFG, DIVA, TA0CTL, CCIS, TAR, TACCR1, P2SEL2>>
    /\ UNCHANGED <<base_old, since, susp, nmeas, gsum, gcount, nexp, mtrace>>

\* if (delta_cnt > KEY_LVL) { key_pressed = 1; UARTPrintln(...); } else key_pressed = 0;
L94 ==
    /\ Running /\ pc = "L94"
    /\ IF TouchCond(delta_cnt)
         THEN /\ key_pressed' = 1
              /\ uart' = Append(uart, UARTPrintln("Presense detected"))
         ELSE /\ key_pressed' = 0
              /\ UNCHANGED uart
    /\ wdtcnt' = Tick
    /\ pc' = "L100"
    /\ UNCHANGED <<ret, base_cnt, meas_cnt, delta_cnt, cycles, i>>
    /\ UNCHANGED <<SR, WDTCTL, WDTIE, WDTIFG, DIVA, TA0CTL, CCIS, TAR, TACCR1, P2SEL2>>
    /\ UNCHANGED <<base_old, since, susp, nmeas, gsum, gcount, nexp, mtrace>>

\* Variant: cycles is not set back to zero when the grace period is over.
L100_no_clamp ==
    /\ Running /\ pc = "L100"
    /\ IF key_pressed # 0
         THEN /\ DIVA' = DIVA_0
              /\ cycles' = GRACE
              /\ since' = 0
         ELSE /\ IF GraceExpired(cycles) THEN DIVA' = DIVA_3 ELSE UNCHANGED DIVA
              /\ cycles' = cycles - 1
              /\ since' = IF since < 0 \/ since >= MaxSince THEN since ELSE since + 1
    /\ wdtcnt' = Tick
    /\ pc' = "L109"
    /\ UNCHANGED <<ret, base_cnt, meas_cnt, delta_cnt, key_pressed, i>>
    /\ UNCHANGED <<SR, WDTCTL, WDTIE, WDTIFG, TA0CTL, CCIS, TAR, TACCR1, P2SEL2>>
    /\ UNCHANGED <<uart, base_old, susp, nmeas, gsum, gcount, nexp, mtrace>>

\* Variant: the two ACLK dividers exchanged.
L100_dividers_swapped ==
    /\ Running /\ pc = "L100"
    /\ IF key_pressed # 0
         THEN /\ DIVA' = DIVA_3
              /\ cycles' = GRACE
              /\ since' = 0
         ELSE /\ IF GraceExpired(cycles)
                   THEN DIVA' = DIVA_0 /\ cycles' = 0
                   ELSE UNCHANGED DIVA /\ cycles' = cycles - 1
              /\ since' = IF since < 0 \/ since >= MaxSince THEN since ELSE since + 1
    /\ wdtcnt' = Tick
    /\ pc' = "L109"
    /\ UNCHANGED <<ret, base_cnt, meas_cnt, delta_cnt, key_pressed, i>>
    /\ UNCHANGED <<SR, WDTCTL, WDTIE, WDTIFG, TA0CTL, CCIS, TAR, TACCR1, P2SEL2>>
    /\ UNCHANGED <<uart, base_old, susp, nmeas, gsum, gcount, nexp, mtrace>>

\* Variant: a key press reloads cycles but leaves the ACLK divider alone.
L100_no_fast ==
    /\ Running /\ pc = "L100"
    /\ IF key_pressed # 0
         THEN /\ UNCHANGED DIVA
              /\ cycles' = GRACE
              /\ since' = 0
         ELSE /\ IF GraceExpired(cycles)
                   THEN DIVA' = DIVA_3 /\ cycles' = 0
                   ELSE UNCHANGED DIVA /\ cycles' = cycles - 1
              /\ since' = IF since < 0 \/ since >= MaxSince THEN since ELSE since + 1
    /\ wdtcnt' = Tick
    /\ pc' = "L109"
    /\ UNCHANGED <<ret, base_cnt, meas_cnt, delta_cnt, key_pressed, i>>
    /\ UNCHANGED <<SR, WDTCTL, WDTIE, WDTIFG, TA0CTL, CCIS, TAR, TACCR1, P2SEL2>>
    /\ UNCHANGED <<uart, base_old, susp, nmeas, gsum, gcount, nexp, mtrace>>

\* if (key_pressed) { ACLK/1; cycles = 20; }
\* else if (cycles-- == 0) { ACLK/8; cycles = 0; }
L100 ==
    /\ Running /\ pc = "L100"
    /\ IF key_pressed # 0
         THEN /\ DIVA' = DIVA_0
              /\ cycles' = GRACE
              /\ since' = 0
         ELSE /\ IF GraceExpired(cycles)
                   THEN DIVA' = DIVA_3 /\ cycles' = 0
                   ELSE UNCHANGED DIVA /\ cycles' = cycles - 1
              /\ since' = IF since < 0 \/ since >= MaxSince THEN since ELSE since + 1
    /\ wdtcnt' = Tick
    /\ pc' = "L109"
    /\ UNCHANGED <<ret, base_cnt, meas_cnt, delta_cnt, key_pressed, i>>
    /\ UNCHANGED <<SR, WDTCTL, WDTIE, WDTIFG, TA0CTL, CCIS, TAR, TACCR1, P2SEL2>>
    /\ UNCHANGED <<uart, base_old, susp, nmeas, gsum, gcount, nexp, mtrace>>

\* WDTCTL = WDT_delay_setting;
L109 ==
    /\ Running /\ pc = "L109"
    /\ WDTCTL' = WDT_delay_setting /\ wdtcnt' = 0
    /\ pc' = "L110"
    /\ UNCHANGED <<ret, base_cnt, meas_cnt, delta_cnt, key_pressed, cycles, i>>
    /\ UNCHANGED <<SR, WDTIE, WDTIFG, DIVA, TA0CTL, CCIS, TAR, TACCR1, P2SEL2>>
    /\ nexp' = 0
    /\ UNCHANGED <<uart, base_old, since, susp, nmeas, gsum, gcount, mtrace>>

\* Variant: the loop goes round without entering LPM3.
L110_no_halt ==
    /\ Running /\ pc = "L110"
    /\ wdtcnt' = Tick
    /\ pc' = "L85"
    /\ UNCHANGED <<ret, base_cnt, meas_cnt, delta_cnt, key_pressed, cycles, i>>
    /\ UNCHANGED <<SR, WDTCTL, WDTIE, WDTIFG, DIVA, TA0CTL, CCIS, TAR, TACCR1, P2SEL2>>
    /\ UNCHANGED hist

\* __bis_SR_register(LPM3_bits);   then back to the top of the loop
L110 ==
    /\ Running /\ pc = "L110"
    /\ SR' = SR \cup LPM3_bits
    /\ wdtcnt' = Tick
    /\ susp' = Append(susp, "LPM3")
    /\ pc' = "L85"
    /\ UNCHANGED <<ret, base_cnt, meas_cnt, delta_cnt, key_pressed, cycles, i>>
    /\ UNCHANGED <<WDTCTL, WDTIE, WDTIFG, DIVA, TA0CTL, CCIS, TAR, TACCR1, P2SEL2>>
    /\ UNCHANGED <<uart, base_old, since, nmeas, gsum, gcount, nexp, mtrace>>

(***************************************************************************)
(* Hardware                                                                *)
(***************************************************************************)
\* The WDT interval elapses.  The interval is at least GateCycles CPU cycles
\* long, so it can elapse while the CPU is halted, or once the statements
\* executed since the counter was cleared may have taken that long.  In
\* interval mode the counter restarts from zero.  While Timer_A counts the
\* pin oscillator, TAR holds the count the gate produced.
WDTExpire ==
    /\ WdtInterval /\ ~WDTIFG
    /\ ~Running \/ wdtcnt * StmtCycles >= GateCycles
    /\ WDTIFG' = TRUE
    /\ wdtcnt' = 0
    /\ IF Counting
         THEN TAR' \in (IF ret = "gb_120" THEN BaseCounts ELSE RawCounts)
         ELSE UNCHANGED TAR
    /\ UNCHANGED prog
    /\ UNCHANGED <<SR, WDTCTL, WDTIE, DIVA, TA0CTL, CCIS, TACCR1, P2SEL2>>
    /\ nexp' = nexp + 1
    /\ UNCHANGED <<uart, base_old, since, susp, nmeas, gsum, gcount, mtrace>>

\* Variant: the handler clears the LPM0 bits only.
watchdog_timer_LPM0 ==
    /\ WDTIFG /\ WDTIE /\ "GIE" \in SR
    /\ WDTIFG' = FALSE
    /\ SR' = SR \ LPM0_bits
    /\ susp' = IF ret = "L87" /\ ~Running THEN Append(susp, "wake") ELSE susp
    /\ mtrace' = IF pc = "m_141" /\ ~Running THEN Append(mtrace, "wake") ELSE mtrace
    /\ wdtcnt' = Tick
    /\ UNCHANGED prog
    /\ UNCHANGED <<WDTCTL, WDTIE, DIVA, TA0CTL, CCIS, TAR, TACCR1, P2SEL2>>
    /\ UNCHANGED <<uart, base_old, since, nmeas, gsum, gcount, nexp>>

\* __interrupt void watchdog_timer(void) { __bic_SR_register_on_exit(LPM3_bits); }
\* The interrupt is accepted when flag, enable and GIE are set; accepting it
\* clears WDTIFG; the return restores SR without the LPM3 bits.  Entry and
\* return take CPU cycles of the interval that has just begun.
watchdog_timer ==
    /\ WDTIFG /\ WDTIE /\ "GIE" \in SR
    /\ WDTIFG' = FALSE
    /\ SR' = SR \ LPM3_bits
    /\ susp' = IF ret = "L87" /\ ~Running THEN Append(susp, "wake") ELSE susp
    /\ UNCHANGED prog
    /\ wdtcnt' = Tick
    /\ UNCHANGED <<WDTCTL, WDTIE, DIVA, TA0CTL, CCIS, TAR, TACCR1, P2SEL2>>
    /\ mtrace' = IF pc = "m_141" /\ ~Running THEN Append(mtrace, "wake") ELSE mtrace
    /\ UNCHANGED <<uart, base_old, since, nmeas, gsum, gcount, nexp>>

CPU ==
    \/ main_71 \/ main_77 \/ main_80
    \/ gb_117 \/ gb_118 \/ gb_120
    \/ m_127 \/ m_133 \/ m_138 \/ m_139 \/ m_140 \/ m_141 \/ m_142 \/ m_143 \/ m_144
    \/ L85 \/ L87 \/ L91 \/ L94 \/ L100 \/ L109 \/ L110

Next == CPU \/ WDTExpire \/ watchdog_timer

Spec == Init /\ [][Next]_vars

\* The CPU executes while it is not halted, the WDT keeps counting its clock,
\* and an enabled pending interrupt is taken.
FairSpec == Spec /\ WF_vars(CPU) /\ WF_vars(WDTExpire) /\ WF_vars(watchdog_timer)

(***************************************************************************)
(* Properties                                                              *)
(***************************************************************************)
\* The decision of the current cycle has been taken (delta, baseline update
\* and key_pressed all belong to this cycle).
Decided == pc = "L100"

\* The drift correction of the current cycle has been applied (or skipped).
Adjusted == pc \in {"L94", "L100"}

\* C1: in every cycle the key is reported pressed iff the exact integer
\* difference baseline - raw count exceeds KEY_LVL.
C1_TouchIffTrueDifference ==
    Decided => ((key_pressed = 1) <=> (base_old - meas_cnt > KEY_LVL))

\* C2: after a cycle, the baseline is floor((old baseline + raw) / 2) when
\* the raw count is above the old baseline, and the old baseline otherwise.
C2_DriftCorrection ==
    Adjusted =>
        /\ meas_cnt > base_old => base_cnt = (base_old + meas_cnt) \div 2
        /\ meas_cnt <= base_old => base_cnt = base_old

\* C3: a cycle whose raw count is at least the baseline does not lower the
\* baseline.
C3_BaselineNonDecreasing ==
    Adjusted /\ meas_cnt >= base_old => base_cnt >= base_old

\* C4: a cycle whose raw count is below the baseline leaves the baseline
\* unchanged, however far below it is.
C4_NeverChasesDecrease ==
    Adjusted /\ meas_cnt < base_old => base_cnt = base_old

\* C4 witness: a deep touch (raw count zero, baseline in the upper part of
\* its range) has been processed.
C4_Witness == Adjusted /\ meas_cnt = 0 /\ base_old > 30000

\* get_base_count has returned and the main loop has not started.
BaselineTaken == pc = "L85" /\ ret = "gb_120"

\* C5: get_base_count makes exactly 16 measurements and leaves
\* floor(S / 16) in base_cnt, S being the exact sum of the 16 counts.
C5_BaselineIsAverage ==
    BaselineTaken => gcount = BASE_SAMPLES /\ base_cnt = gsum \div BASE_SAMPLES

\* The CPU is halted in the wait between two measurement cycles.
DelayWait == ~Running /\ WDTCTL = WDT_delay_setting

\* C6: the waits of the touched cycle's next 20 cycles run at ACLK/1; when
\* no touch intervenes, the 21st not-touched cycle (and not an earlier one)
\* selects ACLK/8.
C6_FastForTwentyCycles ==
    DelayWait =>
        /\ since \in 0..GRACE => DIVA = DIVA_0
        /\ since > GRACE => DIVA = DIVA_3

\* C6 witness: the wait of the 21st consecutive not-touched cycle.
C6_Witness == DelayWait /\ since = GRACE + 1 /\ DIVA = DIVA_3

\* The rate selection of a not-touched cycle has just run.
RateSelectedIdle == pc = "L109" /\ key_pressed = 0

\* C7 as stated: after a not-touched cycle, a grace counter of zero means
\* the slow interval has been selected.
C7_ZeroMeansSlow == RateSelectedIdle /\ cycles = 0 => DIVA = DIVA_3

\* C7 amended: a not-touched cycle that starts with the grace counter at
\* zero selects ACLK/8 and keeps the counter at zero; a not-touched cycle that
\* starts with the counter above zero decrements it and stays at ACLK/1,
\* also when that decrement brings the counter to zero.
C7_SlowOnceStartedAtZero ==
    [][ (pc = "L100" /\ pc' = "L109" /\ key_pressed = 0) =>
            IF cycles = 0
              THEN DIVA' = DIVA_3 /\ cycles' = 0
              ELSE DIVA' = DIVA_0 /\ cycles' = cycles - 1 ]_vars

\* C7 witness: the not-touched cycle in which the counter reached zero has
\* selected its interval, and it is still the fast one.
C7_Witness == RateSelectedIdle /\ cycles = 0 /\ DIVA = DIVA_0 /\ since = GRACE

\* C8: a cycle whose raw count equals the baseline leaves the baseline
\* unchanged and reports no touch.
C8_EqualSampleIsIdle ==
    Decided /\ meas_cnt = base_old => base_cnt = base_old /\ key_pressed = 0

\* C8 witness: a cycle that measured exactly the baseline (1000) has been
\* decided.
C8_Witness == Decided /\ meas_cnt = base_old /\ delta_cnt = 0 /\ base_old = 1000

\* One full loop iteration: halt for the gate, wake, halt for the delay, wake.
FullCycle == <<"LPM0", "wake", "LPM3", "wake">>

IsPrefix(s, t) == Len(s) <= Len(t) /\ SubSeq(t, 1, Len(s)) = s

\* The loop iteration is complete: the CPU is back at the top of the loop,
\* woken from the delay.
CycleDone == pc = "L85" /\ ret = "L87" /\ Running

\* C9: every loop iteration halts exactly twice, first for the gate in
\* measure_count and then for the delay, takes exactly one measurement, and
\* starts measure_count only when no measurement is under way.
C9_TwoHaltsPerCycle ==
    /\ IsPrefix(susp, FullCycle)
    /\ nmeas <= 1
    /\ CycleDone => susp = FullCycle /\ nmeas = 1
    /\ pc = "m_127" => ~P2SEL2 /\ WDTCTL # WDT_meas_setting

\* C9 witness: a completed iteration.
C9_Witness == CycleDone /\ susp = FullCycle /\ nmeas = 1

\* C10: a halted CPU always has the WDT counting in interval mode with WDTIE
\* and GIE set; every halt ends, and measurements keep being taken.
C10_NeverStops ==
    /\ [](~Running => WdtInterval /\ WDTIE /\ "GIE" \in SR)
    /\ (~Running ~> Running)
    /\ []<>(pc = "m_142" /\ ret = "L87")

\* C10 witness: the CPU is halted in the delay wait and the interval has
\* elapsed, so the wake-up interrupt is about to be taken.
C10_Witness == DelayWait /\ WDTIFG /\ WDTIE /\ "GIE" \in SR

\* The CPU is inside measure_count, between routing the pin oscillator and
\* the return.
Measuring == pc \in {"m_138", "m_139", "m_140", "m_141", "m_142", "m_143", "m_144"}

\* measure_count has just returned to its caller.
Returned == pc \in {"gb_120", "L87"}

\* C11: measure_count returns with the WDT stopped and the pin oscillator
\* function deselected, and the pin oscillator is selected only inside
\* measure_count.
C11_ReturnsStoppedAndUnrouted ==
    /\ Returned => WDTCTL = WDT_HOLD /\ ~P2SEL2
    /\ P2SEL2 => Measuring

\* C11 witness: a measurement of the main loop has returned, timer stopped
\* and routing off, with the count it took.
C11_Witness ==
    /\ pc = "L87" /\ WDTCTL = WDT_HOLD /\ ~P2SEL2
    /\ mtrace # <<>> /\ meas_cnt = 780

\* The cycle's output is complete: the decision has been taken and the next
\* cycle has not begun.
OutputDone == pc \in {"L100", "L109", "L110"} \/ (pc = "L85" /\ ret = "L87")

Reports == {k \in 1..Len(uart) : uart[k].kind = "report"}
Notices == {k \in 1..Len(uart) : uart[k].kind = "Presense detected"}

\* C12: a cycle prints exactly one report, with the baseline the delta was
\* computed from, the raw count and the delta, and prints the notification
\* exactly when the key is reported pressed.
C12_OneReportPerCycle ==
    OutputDone =>
        /\ Cardinality(Reports) = 1
        /\ uart[1] = printformat(base_old, meas_cnt, delta_cnt)
        /\ Cardinality(Notices) = (IF key_pressed = 1 THEN 1 ELSE 0)
        /\ Len(uart) = Cardinality(Reports) + Cardinality(Notices)

\* C12 witness: a cycle that corrected the baseline has printed the old
\* baseline and no notification.
C12_Witness ==
    /\ OutputDone /\ base_cnt # base_old /\ key_pressed = 0
    /\ uart = <<printformat(base_old, meas_cnt, delta_cnt)>>

\* The CPU has just been woken from the halt of measure_count / of the delay.
WokenFromGate == pc = "m_141" /\ Running
WokenFromDelay == pc = "L85" /\ ret = "L87" /\ Running

\* C13: while the CPU executes, no WDT interrupt is pending and the interval
\* cannot elapse; a halt is ended by the first interval that elapses after
\* the WDT was started for it.
C13_InterruptOnlyWhileHalted ==
    /\ Running => ~WDTIFG /\ ~ENABLED WDTExpire
    /\ nexp <= 1
    /\ WokenFromGate \/ WokenFromDelay => nexp = 1

\* C13 witness: the CPU runs again after the gate, the WDT still counting,
\* one interval elapsed and nothing pending.
C13_Witness == WokenFromGate /\ WdtInterval /\ nexp = 1 /\ ~WDTIFG /\ wdtcnt > 0

\* Position of step e in the record of the current measure_count call
\* (0 when it has not happened).
Pos(e) == IF \E k \in 1..Len(mtrace) : mtrace[k] = e
            THEN CHOOSE k \in 1..Len(mtrace) : mtrace[k] = e
            ELSE 0

\* C14 as stated: route, reset of the counter, start of the gate, halt,
\* wake, capture, unroute, in this order.
C14_ClearBeforeGate ==
    Returned =>
        /\ 0 < Pos("route") /\ Pos("route") < Pos("clear")
        /\ Pos("clear") < Pos("gate") /\ Pos("gate") < Pos("halt")
        /\ Pos("halt") < Pos("wake") /\ Pos("wake") < Pos("capture")
        /\ Pos("capture") < Pos("unroute")

\* The steps of measure_count in the order of the code.
MeasureSteps ==
    <<"route", "gate", "clear", "halt", "wake", "capture", "save", "stop", "unroute">>

\* C14 amended: the gate is started first and the counter is reset right
\* after it, before the halt; the rest of the order is as stated.  Every
\* call goes through exactly these steps, the counter is zero when the CPU
\* halts, and the value saved is the one captured after the wake.
C14_GateThenClear ==
    /\ IsPrefix(mtrace, MeasureSteps)
    /\ Returned => mtrace = MeasureSteps
    /\ pc = "m_140" => TAR = 0
    /\ pc = "m_143" => meas_cnt = TAR

\* C14 witness: a measurement of the main loop has gone through all steps.
C14_Witness == pc = "L87" /\ mtrace = MeasureSteps /\ meas_cnt = 779

\* A step that takes the WDT interrupt: only the handler clears WDTIFG.
HandlerStep == WDTIFG /\ ~WDTIFG'

\* C15: the interrupt handler leaves the sensing variables and the ACLK
\* divider alone and clears every low-power bit, so it ends the halt of
\* measure_count (LPM0) and the halt of the delay (LPM3) alike.
C15_HandlerOnlyWakes ==
    [][ HandlerStep =>
          /\ UNCHANGED <<base_cnt, meas_cnt, delta_cnt, key_pressed, cycles, DIVA>>
          /\ UNCHANGED <<pc, ret, i, WDTCTL, WDTIE, TAR, TACCR1, P2SEL2>>
          /\ SR' = SR \ LPM3_bits
          /\ SR' \cap LPM3_bits = {} ]_vars

\* C15 witness: the handler has ended the LPM3 halt of the delay; no
\* low-power bit is left and the WDT still counts.
C15_Witness ==
    /\ WokenFromDelay /\ SR = {"GIE"} /\ ~WDTIFG
    /\ WDTCTL = WDT_delay_setting /\ susp = FullCycle

\* The rate selection of the current cycle has run.
RateSelected == pc \in {"L109", "L110"} \/ (pc = "L85" /\ ret = "L87")

\* C16: at the end of a cycle cycles is within 0..20 and is 20 exactly when
\* the cycle reported a touch; it is never negative between steps.
C16_GraceCounterRange ==
    /\ cycles >= 0
    /\ RateSelected => cycles \in 0..GRACE /\ (cycles = GRACE <=> key_pressed = 1)

\* C16 witness: the CPU halts for the delay after the 20th not-touched cycle
\* that follows a touch, the counter back at zero.
C16_Witness == DelayWait /\ cycles = 0 /\ since = GRACE /\ key_pressed = 0

\* C17: a cycle that reports a touch has not changed the baseline, and a
\* cycle that changed the baseline reports no touch.
C17_TouchExcludesDrift ==
    Decided =>
        /\ key_pressed = 1 => base_cnt = base_old
        /\ base_cnt # base_old => key_pressed = 0

\* C17 witness: a cycle has corrected the baseline and reported no touch.
C17_Witness == Decided /\ base_cnt # base_old /\ delta_cnt < -KEY_LVL /\ key_pressed = 0

\* C18: the divider goes from ACLK/8 to ACLK/1 only in a cycle that reports
\* a touch and from ACLK/1 to ACLK/8 only in one that does not; a not-touched
\* cycle that starts at ACLK/8 stays there; and until the first touch, the
\* first cycle included, every delay runs at ACLK/8.
C18_ModeChanges ==
    /\ [][ /\ (DIVA = DIVA_3 /\ DIVA' = DIVA_0) => (pc = "L100" /\ key_pressed = 1)
           /\ (DIVA = DIVA_0 /\ DIVA' = DIVA_3) => (pc = "L100" /\ key_pressed = 0)
           /\ (pc = "L100" /\ pc' = "L109" /\ key_pressed = 0 /\ DIVA = DIVA_3)
                 => DIVA' = DIVA_3 ]_vars
    /\ [](DelayWait /\ since < 0 => DIVA = DIVA_3)

\* C18 witness: the delay of a cycle before any touch, at ACLK/8, with the
\* baseline as get_base_count left it.
C18_Witness == DelayWait /\ since < 0 /\ DIVA = DIVA_3 /\ base_cnt = 1000 /\ meas_cnt = 1000

====
